---------------------------- MODULE Spec2Model ----------------------------
(***************************************************************************)
(* A model of the SQL engine: Lexer, Parser, storage (Value / Schema /     *)
(* Table / Database), the statement visitor LLVMCodeGenerator and the      *)
(* orchestrator QueryEngine::execute.                                      *)
(*                                                                         *)
(* Conventions.  A std::string is a sequence of one-character strings, so  *)
(* the empty string is << >>.  C++ indices are 0-based: input_[position_]  *)
(* is input[position_ + 1] here.  An exception is a record whose field st  *)
(* is "error" and whose field err is the what() text, kept as a tuple of   *)
(* its concatenated pieces.                                                *)
(***************************************************************************)
EXTENDS Integers, Sequences, FiniteSets, TLC

VARIABLES
    tables_,      \* Database::tables_ : table name -> Table (schema_, rows_)
    last_error_,  \* QueryEngine::last_error_
    results_,     \* LLVMCodeGenerator::results_
    jit_,         \* whether LLJITBuilder().create() gave a JIT (jit_ non-null)
    module_,      \* LLVMCodeGenerator::module_ / context_: "valid" or "null"
    pc,           \* "idle", "returned" (execute returned) or "crashed"
    sql_in,       \* the argument of the most recent execute call
    ret,          \* the rows the most recent execute call returned
    lex_input,    \* Lexer::input_ of the lexer under test
    position_,    \* Lexer::position_
    lex_tokens,   \* the local vector `tokens` of Lexer::tokenize
    lex_pc,       \* "loop" while tokenize is in its while loop, then "done"
    table_,       \* the Table under test: name_, schema_, rows_
    row_in,       \* the argument of the most recent Table::insertRow call
    insert_err,   \* what() of the exception that call raised, << >> if none
    cmp_in,       \* the Values a, b, c under comparison
    cmp_out,      \* what the comparison operators of Value returned on them
    expr_in,      \* the text of the expression under test
    expr_out      \* what Parser::parseExpression returned on its tokens

vars == <<tables_, last_error_, results_, jit_, module_, pc, sql_in, ret,
          lex_input, position_, lex_tokens, lex_pc, table_, row_in, insert_err,
          cmp_in, cmp_out, expr_in, expr_out>>
engineVars == <<tables_, last_error_, results_, jit_, module_, pc, sql_in, ret>>
lexVars == <<lex_input, position_, lex_tokens, lex_pc>>
tableVars == <<table_, row_in, insert_err>>
valueVars == <<cmp_in, cmp_out>>
exprVars == <<expr_in, expr_out>>

-----------------------------------------------------------------------------
(* Characters *)

\* Let(v, F) is F applied to v: a local name for a value used more than once.
\* The value is bound as the element of a set, so it is computed once.
Let(v, F(_)) == CHOOSE y \in {F(x) : x \in {v}} : TRUE

DigitChars == <<"0", "1", "2", "3", "4", "5", "6", "7", "8", "9">>
LowerChars == <<"a", "b", "c", "d", "e", "f", "g", "h", "i", "j", "k", "l", "m",
                "n", "o", "p", "q", "r", "s", "t", "u", "v", "w", "x", "y", "z">>
UpperChars == <<"A", "B", "C", "D", "E", "F", "G", "H", "I", "J", "K", "L", "M",
                "N", "O", "P", "Q", "R", "S", "T", "U", "V", "W", "X", "Y", "Z">>

Range(s) == {s[i] : i \in DOMAIN s}

isDigit(c) == c \in Range(DigitChars)
isAlpha(c) == c \in Range(LowerChars) \cup Range(UpperChars) \cup {"_"}
isAlphaNumeric(c) == isAlpha(c) \/ isDigit(c)
isspace(c) == c \in {" ", "\t", "\n", "\r", "\f"}

toupper(c) ==
    IF c \in Range(LowerChars)
    THEN UpperChars[CHOOSE i \in DOMAIN LowerChars : LowerChars[i] = c]
    ELSE c

upper(s) == [i \in DOMAIN s |-> toupper(s[i])]

-----------------------------------------------------------------------------
(* Lexer *)

Token(t, v, pos) == [type |-> t, value |-> v, position |-> pos]

keywords_ ==
    { <<<<"S","E","L","E","C","T">>, "SELECT">>,
      <<<<"F","R","O","M">>, "FROM">>,
      <<<<"W","H","E","R","E">>, "WHERE">>,
      <<<<"I","N","S","E","R","T">>, "INSERT">>,
      <<<<"I","N","T","O">>, "INTO">>,
      <<<<"V","A","L","U","E","S">>, "VALUES">>,
      <<<<"C","R","E","A","T","E">>, "CREATE">>,
      <<<<"T","A","B","L","E">>, "TABLE">>,
      <<<<"D","R","O","P">>, "DROP">>,
      <<<<"U","P","D","A","T","E">>, "UPDATE">>,
      <<<<"S","E","T">>, "SET">>,
      <<<<"D","E","L","E","T","E">>, "DELETE">>,
      <<<<"A","N","D">>, "AND">>,
      <<<<"O","R">>, "OR">>,
      <<<<"N","O","T">>, "NOT">>,
      <<<<"T","R","U","E">>, "TRUE">>,
      <<<<"F","A","L","S","E">>, "FALSE">>,
      <<<<"N","U","L","L">>, "NULL_KW">>,
      <<<<"A","S">>, "AS">>,
      <<<<"O","R","D","E","R">>, "ORDER">>,
      <<<<"B","Y">>, "BY">>,
      <<<<"A","S","C">>, "ASC">>,
      <<<<"D","E","S","C">>, "DESC">>,
      <<<<"L","I","M","I","T">>, "LIMIT">>,
      <<<<"I","N","T","E","G","E","R">>, "INTEGER_TYPE">>,
      <<<<"R","E","A","L">>, "REAL_TYPE">>,
      <<<<"T","E","X","T">>, "TEXT_TYPE">>,
      <<<<"B","O","O","L","E","A","N">>, "BOOLEAN_TYPE">> }

hasNext(input, pos) == pos < Len(input)

Lexer_peek(input, pos) == IF pos >= Len(input) THEN "NUL" ELSE input[pos + 1]

\* Lexer::advance returns the character and moves on; the new position is
\* Lexer_advance(input, pos), the character is Lexer_peek(input, pos).
Lexer_advance(input, pos) == IF pos >= Len(input) THEN pos ELSE pos + 1

RECURSIVE skipWhitespace(_, _)
skipWhitespace(input, pos) ==
    IF hasNext(input, pos) /\ isspace(Lexer_peek(input, pos))
    THEN skipWhitespace(input, pos + 1)
    ELSE pos

RECURSIVE skipComment(_, _)
skipComment(input, pos) ==
    IF hasNext(input, pos) /\ Lexer_peek(input, pos) # "\n"
    THEN skipComment(input, Lexer_advance(input, pos))
    ELSE pos

\* The token is made after the characters are consumed, so its position is
\* the position after the token.
makeToken(type, value, pos) == Token(type, value, pos)

escapeChar(escaped) ==
    CASE escaped = "n" -> "\n"
      [] escaped = "t" -> "\t"
      [] escaped = "r" -> "\r"
      [] OTHER -> escaped

\* The while loop of readString: pos is past the opening quote.
RECURSIVE readStringLoop(_, _, _, _)
readStringLoop(input, pos, quote, value) ==
    IF hasNext(input, pos) /\ Lexer_peek(input, pos) # quote
    THEN LET c == Lexer_peek(input, pos)
             p1 == Lexer_advance(input, pos)
         IN  IF c = "\\" /\ hasNext(input, p1)
             THEN readStringLoop(input, Lexer_advance(input, p1), quote,
                                 Append(value, escapeChar(Lexer_peek(input, p1))))
             ELSE readStringLoop(input, p1, quote, Append(value, c))
    ELSE [pos |-> pos, value |-> value]

readString(input, pos) ==
    Let(Lexer_peek(input, pos), LAMBDA quote :
    Let(readStringLoop(input, Lexer_advance(input, pos), quote, << >>), LAMBDA r :
    Let(IF hasNext(input, r.pos) /\ Lexer_peek(input, r.pos) = quote
        THEN Lexer_advance(input, r.pos)
        ELSE r.pos, LAMBDA p2 :
    [tok |-> makeToken("STRING_LITERAL", r.value, p2), pos |-> p2])))

RECURSIVE readNumberLoop(_, _, _, _)
readNumberLoop(input, pos, value, hasDecimal) ==
    IF hasNext(input, pos)
       /\ (isDigit(Lexer_peek(input, pos))
           \/ (~hasDecimal /\ Lexer_peek(input, pos) = "."))
    THEN readNumberLoop(input, Lexer_advance(input, pos),
                        Append(value, Lexer_peek(input, pos)),
                        hasDecimal \/ Lexer_peek(input, pos) = ".")
    ELSE [pos |-> pos, value |-> value, hasDecimal |-> hasDecimal]

readNumber(input, pos) ==
    Let(readNumberLoop(input, pos, << >>, FALSE), LAMBDA r :
    [tok |-> makeToken(IF r.hasDecimal THEN "REAL_LITERAL" ELSE "INTEGER_LITERAL",
                       r.value, r.pos),
     pos |-> r.pos])

RECURSIVE readIdentifierLoop(_, _, _)
readIdentifierLoop(input, pos, value) ==
    IF hasNext(input, pos) /\ isAlphaNumeric(Lexer_peek(input, pos))
    THEN readIdentifierLoop(input, Lexer_advance(input, pos),
                            Append(value, Lexer_peek(input, pos)))
    ELSE [pos |-> pos, value |-> value]

readIdentifier(input, pos) ==
    Let(readIdentifierLoop(input, pos, << >>), LAMBDA r :
    Let(upper(r.value), LAMBDA upper_value :
    Let({k \in keywords_ : k[1] = upper_value}, LAMBDA hits :
    IF hits # {}
    THEN [tok |-> makeToken((CHOOSE k \in hits : TRUE)[2], r.value, r.pos),
          pos |-> r.pos]
    ELSE [tok |-> makeToken("IDENTIFIER", r.value, r.pos), pos |-> r.pos])))

\* A switch case whose advance() is missing: the token is made in place.
oneChar_NoAdvance(type, c, pos) == [tok |-> makeToken(type, <<c>>, pos), pos |-> pos]

\* One character consumed, one token: the single-character cases of the switch.
oneChar(type, c, pos) == [tok |-> makeToken(type, <<c>>, pos + 1), pos |-> pos + 1]

\* advance(); if (hasNext() && peek() == second) { advance(); type2 } else type1
twoChar(input, pos, second, type2, type1) ==
    LET c == Lexer_peek(input, pos)
        p1 == Lexer_advance(input, pos)
    IN  IF hasNext(input, p1) /\ Lexer_peek(input, p1) = second
        THEN [tok |-> makeToken(type2, <<c, second>>, p1 + 1), pos |-> p1 + 1]
        ELSE [tok |-> makeToken(type1, <<c>>, p1), pos |-> p1]

RECURSIVE nextToken(_, _)
nextToken(input, pos0) ==
    Let(skipWhitespace(input, pos0), LAMBDA pos :
    Let(Lexer_peek(input, pos), LAMBDA c :
        IF ~hasNext(input, pos)
        THEN [tok |-> makeToken("EOF_TOKEN", << >>, pos), pos |-> pos]
        ELSE IF c = "-" /\ pos + 1 < Len(input) /\ input[pos + 2] = "-"
        THEN nextToken(input, skipComment(input, pos))
        ELSE IF c = "'" \/ c = "\""
        THEN readString(input, pos)
        ELSE IF isDigit(c)
        THEN readNumber(input, pos)
        ELSE IF isAlpha(c)
        THEN readIdentifier(input, pos)
        ELSE CASE c = "(" -> oneChar("LEFT_PAREN", c, pos)
               [] c = ")" -> oneChar("RIGHT_PAREN", c, pos)
               [] c = "," -> oneChar("COMMA", c, pos)
               [] c = ";" -> oneChar("SEMICOLON", c, pos)
               [] c = "." -> oneChar("DOT", c, pos)
               [] c = "+" -> oneChar("PLUS", c, pos)
               [] c = "-" -> oneChar("MINUS", c, pos)
               [] c = "*" -> oneChar("MULTIPLY", c, pos)
               [] c = "/" -> oneChar("DIVIDE", c, pos)
               [] c = "=" -> oneChar("EQUAL", c, pos)
               [] c = "<" ->
                    IF hasNext(input, pos + 1) /\ Lexer_peek(input, pos + 1) = "="
                    THEN twoChar(input, pos, "=", "LESS_EQUAL", "LESS_THAN")
                    ELSE twoChar(input, pos, ">", "NOT_EQUAL", "LESS_THAN")
               [] c = ">" -> twoChar(input, pos, "=", "GREATER_EQUAL", "GREATER_THAN")
               [] c = "!" -> twoChar(input, pos, "=", "NOT_EQUAL", "INVALID")
               [] OTHER -> oneChar("INVALID", c, pos)))

\* One iteration of the while loop of Lexer::tokenize.
tokenizeStep(input, pos, tokens) ==
    Let(nextToken(input, pos), LAMBDA r :
    [pos |-> r.pos,
     tokens |-> IF r.tok.type # "INVALID" THEN Append(tokens, r.tok) ELSE tokens,
     brk |-> r.tok.type = "EOF_TOKEN"])

RECURSIVE tokenizeLoop(_, _, _)
tokenizeLoop(input, pos, tokens) ==
    IF hasNext(input, pos)
    THEN Let(tokenizeStep(input, pos, tokens), LAMBDA s :
         IF s.brk THEN s.tokens ELSE tokenizeLoop(input, s.pos, s.tokens))
    ELSE tokens

tokenize(input) == tokenizeLoop(input, 0, << >>)

-----------------------------------------------------------------------------
(* Values (types.h) *)

IntV(x) == [type |-> "INTEGER", i |-> x]
RealV(x) == [type |-> "REAL", d |-> x]
TextV(x) == [type |-> "TEXT", s |-> x]
BoolV(x) == [type |-> "BOOLEAN", b |-> x]
NullV == [type |-> "NULL_TYPE"]

getType(v) == v.type
isNull(v) == v.type = "NULL_TYPE"

\* The characters of codes 32 to 95 and 97 to 126, in the order of their
\* codes (the grave accent, code 96, occurs in no text of the model).
AsciiLow ==
    <<" ", "!", "\"", "#", "$", "%", "&", "'", "(", ")", "*", "+", ",",
      "-", ".", "/", "0", "1", "2", "3", "4", "5", "6", "7", "8", "9", ":",
      ";", "<", "=", ">", "?", "@", "A", "B", "C", "D", "E", "F", "G", "H",
      "I", "J", "K", "L", "M", "N", "O", "P", "Q", "R", "S", "T", "U", "V",
      "W", "X", "Y", "Z", "[", "\\", "]", "^", "_">>

AsciiHigh ==
    <<"a", "b", "c", "d", "e", "f", "g", "h", "i", "j", "k", "l", "m", "n",
      "o", "p", "q", "r", "s", "t", "u", "v", "w", "x", "y", "z", "{", "|",
      "}", "~">>

charCode(c) ==
    CASE c = "\t" -> 9
      [] c = "\n" -> 10
      [] c = "\f" -> 12
      [] c = "\r" -> 13
      [] \E i \in DOMAIN AsciiLow : AsciiLow[i] = c ->
           31 + (CHOOSE i \in DOMAIN AsciiLow : AsciiLow[i] = c)
      [] OTHER -> 96 + (CHOOSE i \in DOMAIN AsciiHigh : AsciiHigh[i] = c)

\* std::string operator<: lexicographic, a proper prefix is smaller.
RECURSIVE stringLess(_, _)
stringLess(a, b) ==
    IF b = << >> THEN FALSE
    ELSE IF a = << >> THEN TRUE
    ELSE IF a[1] # b[1] THEN charCode(a[1]) < charCode(b[1])
    ELSE stringLess(Tail(a), Tail(b))

\* enum class DataType, in declaration order.
DataTypeOrder == <<"INTEGER", "REAL", "TEXT", "BOOLEAN", "NULL_TYPE">>
dataTypeIndex(t) == CHOOSE i \in DOMAIN DataTypeOrder : DataTypeOrder[i] = t

\* double operator< on the values stod gives.
doubleLess(x, y) == x[1] < y[1] \/ (x[1] = y[1] /\ stringLess(x[2], y[2]))

\* Value::operator<
Value_less(a, b) ==
    IF getType(a) # getType(b)
    THEN dataTypeIndex(getType(a)) < dataTypeIndex(getType(b))
    ELSE CASE getType(a) = "INTEGER" -> a.i < b.i
           [] getType(a) = "REAL" -> doubleLess(a.d, b.d)
           [] getType(a) = "TEXT" -> stringLess(a.s, b.s)
           [] getType(a) = "BOOLEAN" -> ~a.b /\ b.b
           [] OTHER -> FALSE

\* Value::operator==: std::variant compares the alternative, then the value.
Value_eq(a, b) ==
    /\ getType(a) = getType(b)
    /\ CASE getType(a) = "INTEGER" -> a.i = b.i
         [] getType(a) = "REAL" -> a.d = b.d
         [] getType(a) = "TEXT" -> a.s = b.s
         [] getType(a) = "BOOLEAN" -> a.b = b.b
         [] OTHER -> TRUE

\* Value::operator<=
Value_le(a, b) == Value_less(a, b) \/ Value_eq(a, b)

\* operator> as the negation of operator<.
Value_gt_NotLess(a, b) == ~Value_less(a, b)

\* Value::operator>
Value_gt(a, b) == ~Value_le(a, b)

\* Value::operator>=
Value_ge(a, b) == ~Value_less(a, b)

Column(n, t, null, pk) == [name |-> n, type |-> t, nullable |-> null, primary_key |-> pk]

-----------------------------------------------------------------------------
(* AST (ast.h).  A null unique_ptr is Nil. *)

Nil == [kind |-> "null"]
LiteralExpression(v) == [kind |-> "Literal", value |-> v]
ColumnExpression(table, col) == [kind |-> "Column", table_name |-> table, column_name |-> col]
BinaryExpression(l, o, r) == [kind |-> "Binary", left |-> l, op |-> o, right |-> r]
UnaryExpression(o, e) == [kind |-> "Unary", op |-> o, operand |-> e]
DropTableStatement(name) == [kind |-> "DropTable", table_name |-> name]

-----------------------------------------------------------------------------
(* Parser.  The parser object is the record p: tokens_ and current_ are its   *)
(* members; st is "ok" until error() throws ("error", with err the message)  *)
(* or a read faults ("crash").  tokens_[i] with i >= tokens_.size() is a     *)
(* read past the end of the vector: what it yields is not defined by the     *)
(* language, so the memory behind the vector is the field mem, a sequence of *)
(* tokens chosen by the caller; a read behind mem faults.  oob records that  *)
(* some read was made past the end of tokens_.                               *)

Parser(tokens, mem) ==
    [tokens_ |-> tokens, mem |-> mem, current_ |-> 0, st |-> "ok", err |-> << >>,
     oob |-> FALSE]

R(p, v) == [p |-> p, v |-> v]

Parser_at(p, i) ==
    IF i < Len(p.tokens_) THEN p.tokens_[i + 1] ELSE p.mem[i - Len(p.tokens_) + 1]

\* The parser after it evaluated tokens_[i].
Parser_read(p, i) ==
    IF i < Len(p.tokens_) THEN p
    ELSE IF i < Len(p.tokens_) + Len(p.mem) THEN [p EXCEPT !.oob = TRUE]
    ELSE [p EXCEPT !.oob = TRUE, !.st = "crash"]

Parser_peek(p) == Parser_at(p, p.current_)
previous(p) == Parser_at(p, p.current_ - 1)

\* isAtEnd() as a value; the read it makes is Parser_read(p, p.current_).
isAtEnd(p) == Parser_peek(p).type = "EOF_TOKEN"

\* match(type) and match({types}): check() reads tokens_[current_]; advance()
\* reads it again, increments and reads tokens_[current_ - 1].
match(p, types) ==
    IF p.st # "ok" THEN R(p, FALSE)
    ELSE Let(Parser_read(p, p.current_), LAMBDA q :
         IF q.st # "ok" THEN R(q, FALSE)
         ELSE IF ~isAtEnd(q) /\ Parser_peek(q).type \in types
         THEN R([q EXCEPT !.current_ = @ + 1], TRUE)
         ELSE R(q, FALSE))

error(p, message) ==
    IF p.st # "ok" THEN p
    ELSE Let(Parser_read(p, p.current_), LAMBDA q :
         Let(<<"Parse error at token ", p.current_, ": ", message>>, LAMBDA error_msg :
         IF q.st # "ok" THEN q
         ELSE IF ~isAtEnd(q)
         THEN [q EXCEPT !.st = "error",
                        !.err = error_msg \o <<" (got '", Parser_peek(q).value, "')">>]
         ELSE [q EXCEPT !.st = "error", !.err = error_msg]))

consume(p, type, message) ==
    Let(match(p, {type}), LAMBDA m :
    IF m.p.st # "ok" \/ m.v THEN m.p ELSE error(m.p, message))

\* std::stoi / std::stoll on the digits of a literal token.  A text that does
\* not start with a digit raises std::invalid_argument, a value above the
\* type's maximum raises std::out_of_range; what() is the function's name.
INT_MAX == 2147483647

digitValue(c) == (CHOOSE i \in DOMAIN DigitChars : DigitChars[i] = c) - 1

RECURSIVE stoiLoop(_, _, _)
stoiLoop(s, k, acc) ==
    IF k > Len(s) \/ ~isDigit(s[k]) THEN [ok |-> TRUE, v |-> acc]
    ELSE IF acc > (INT_MAX - digitValue(s[k])) \div 10 THEN [ok |-> FALSE, v |-> 0]
    ELSE stoiLoop(s, k + 1, acc * 10 + digitValue(s[k]))

stoi(s) ==
    IF s = << >> \/ ~isDigit(s[1]) THEN [ok |-> FALSE, v |-> 0] ELSE stoiLoop(s, 1, 0)

\* std::stoll: the 64-bit range is not checked, the literals of the model
\* stay far below 2^63.
RECURSIVE stollLoop(_, _, _)
stollLoop(s, k, acc) ==
    IF k > Len(s) \/ ~isDigit(s[k]) THEN [ok |-> TRUE, v |-> acc]
    ELSE stollLoop(s, k + 1, acc * 10 + digitValue(s[k]))

\* stoll that stops after the first digit.
stoll_FirstDigit(s) ==
    IF s = << >> \/ ~isDigit(s[1]) THEN [ok |-> FALSE, v |-> 0]
    ELSE [ok |-> TRUE, v |-> digitValue(s[1])]

stoll(s) ==
    IF s = << >> \/ ~isDigit(s[1]) THEN [ok |-> FALSE, v |-> 0] ELSE stollLoop(s, 1, 0)

\* std::stod on "digits[.digits]": the value as <<whole part, fraction digits
\* without trailing zeros>>.
RECURSIVE stripZeros(_)
stripZeros(f) ==
    IF f # << >> /\ f[Len(f)] = "0" THEN stripZeros(SubSeq(f, 1, Len(f) - 1)) ELSE f

stod(s) ==
    IF s = << >> \/ ~isDigit(s[1]) THEN [ok |-> FALSE, v |-> 0]
    ELSE LET dots == {k \in DOMAIN s : s[k] = "."}
             dot == IF dots = {} THEN Len(s) + 1 ELSE CHOOSE k \in dots : TRUE
             w == stollLoop(s, 1, 0)
         IN  [ok |-> w.ok, v |-> <<w.v, stripZeros(SubSeq(s, dot + 1, Len(s)))>>]

parseValue(p, token) ==
    CASE token.type = "INTEGER_LITERAL" ->
            Let(stoll(token.value), LAMBDA n :
            IF n.ok THEN R(p, IntV(n.v))
            ELSE R([p EXCEPT !.st = "error", !.err = <<"stoll">>], NullV))
      [] token.type = "REAL_LITERAL" ->
            Let(stod(token.value), LAMBDA n :
            IF n.ok THEN R(p, RealV(n.v))
            ELSE R([p EXCEPT !.st = "error", !.err = <<"stod">>], NullV))
      [] token.type = "STRING_LITERAL" -> R(p, TextV(token.value))
      [] token.type = "TRUE" -> R(p, BoolV(TRUE))
      [] token.type = "FALSE" -> R(p, BoolV(FALSE))
      [] OTHER -> R(error(p, "Invalid literal value"), NullV)

parseDataType(p) ==
    Let(match(p, {"INTEGER_TYPE"}), LAMBDA m1 :
    IF m1.v THEN R(m1.p, "INTEGER") ELSE
    Let(match(m1.p, {"REAL_TYPE"}), LAMBDA m2 :
    IF m2.v THEN R(m2.p, "REAL") ELSE
    Let(match(m2.p, {"TEXT_TYPE"}), LAMBDA m3 :
    IF m3.v THEN R(m3.p, "TEXT") ELSE
    Let(match(m3.p, {"BOOLEAN_TYPE"}), LAMBDA m4 :
    IF m4.v THEN R(m4.p, "BOOLEAN")
    ELSE R(error(m4.p, "Expected data type"), "TEXT")))))

RECURSIVE parseExpression(_)
RECURSIVE parseUnaryExpression(_)

parsePrimaryExpression(p) ==
    Let(match(p, {"TRUE", "FALSE"}), LAMBDA m1 :
    IF m1.v THEN R(m1.p, LiteralExpression(BoolV(previous(m1.p).type = "TRUE"))) ELSE
    Let(match(m1.p, {"NULL_KW"}), LAMBDA m2 :
    IF m2.v THEN R(m2.p, LiteralExpression(NullV)) ELSE
    Let(match(m2.p, {"INTEGER_LITERAL", "REAL_LITERAL", "STRING_LITERAL"}), LAMBDA m3 :
    IF m3.v
    THEN Let(parseValue(m3.p, previous(m3.p)), LAMBDA value :
         R(value.p, LiteralExpression(value.v)))
    ELSE
    Let(match(m3.p, {"IDENTIFIER"}), LAMBDA m4 :
    IF m4.v
    THEN Let(previous(m4.p).value, LAMBDA name :
         Let(match(m4.p, {"DOT"}), LAMBDA d :
         IF d.v
         THEN Let(consume(d.p, "IDENTIFIER", "Expected column name after '.'"), LAMBDA c :
              R(c, IF c.st = "ok" THEN ColumnExpression(name, previous(c).value)
                                  ELSE Nil))
         ELSE R(d.p, ColumnExpression(<< >>, name))))
    ELSE
    Let(match(m4.p, {"LEFT_PAREN"}), LAMBDA m5 :
    IF m5.v
    THEN Let(parseExpression(m5.p), LAMBDA expr :
         R(consume(expr.p, "RIGHT_PAREN", "Expected ')' after expression"), expr.v))
    ELSE R(error(m5.p, "Expected expression"), Nil))))))

parseUnaryExpression(p) ==
    Let(match(p, {"NOT", "MINUS"}), LAMBDA m :
    IF m.v
    THEN Let(IF previous(m.p).type = "NOT" THEN "NOT" ELSE "MINUS", LAMBDA op :
         Let(parseUnaryExpression(m.p), LAMBDA expr :
         R(expr.p, UnaryExpression(op, expr.v))))
    ELSE parsePrimaryExpression(m.p))

\* while (match({DIVIDE, MULTIPLY})) { ... } of parseFactorExpression
RECURSIVE factorLoop(_)
factorLoop(e) ==
    Let(match(e.p, {"DIVIDE", "MULTIPLY"}), LAMBDA m :
    IF m.v
    THEN Let(IF previous(m.p).type = "MULTIPLY" THEN "MULTIPLY" ELSE "DIVIDE", LAMBDA op :
         Let(parseUnaryExpression(m.p), LAMBDA right :
         factorLoop(R(right.p, BinaryExpression(e.v, op, right.v)))))
    ELSE R(m.p, e.v))

parseFactorExpression(p) == factorLoop(parseUnaryExpression(p))

RECURSIVE termLoop(_)
termLoop(e) ==
    Let(match(e.p, {"MINUS", "PLUS"}), LAMBDA m :
    IF m.v
    THEN Let(IF previous(m.p).type = "PLUS" THEN "ADD" ELSE "SUBTRACT", LAMBDA op :
         Let(parseFactorExpression(m.p), LAMBDA right :
         termLoop(R(right.p, BinaryExpression(e.v, op, right.v)))))
    ELSE R(m.p, e.v))

parseTermExpression(p) == termLoop(parseFactorExpression(p))

comparisonOp(type) ==
    CASE type = "GREATER_THAN" -> "GREATER_THAN"
      [] type = "GREATER_EQUAL" -> "GREATER_EQUAL"
      [] type = "LESS_THAN" -> "LESS_THAN"
      [] type = "LESS_EQUAL" -> "LESS_EQUAL"
      [] OTHER -> "EQUAL"

RECURSIVE comparisonLoop(_)
comparisonLoop(e) ==
    Let(match(e.p, {"GREATER_THAN", "GREATER_EQUAL", "LESS_THAN", "LESS_EQUAL"}), LAMBDA m :
    IF m.v
    THEN Let(comparisonOp(previous(m.p).type), LAMBDA op :
         Let(parseTermExpression(m.p), LAMBDA right :
         comparisonLoop(R(right.p, BinaryExpression(e.v, op, right.v)))))
    ELSE R(m.p, e.v))

parseComparisonExpression(p) == comparisonLoop(parseTermExpression(p))

RECURSIVE equalityLoop(_)
equalityLoop(e) ==
    Let(match(e.p, {"NOT_EQUAL", "EQUAL"}), LAMBDA m :
    IF m.v
    THEN Let(IF previous(m.p).type = "EQUAL" THEN "EQUAL" ELSE "NOT_EQUAL", LAMBDA op :
         Let(parseComparisonExpression(m.p), LAMBDA right :
         equalityLoop(R(right.p, BinaryExpression(e.v, op, right.v)))))
    ELSE R(m.p, e.v))

parseEqualityExpression(p) == equalityLoop(parseComparisonExpression(p))

RECURSIVE andLoop(_)
andLoop(e) ==
    Let(match(e.p, {"AND"}), LAMBDA m :
    IF m.v
    THEN Let(parseEqualityExpression(m.p), LAMBDA right :
         andLoop(R(right.p, BinaryExpression(e.v, "AND", right.v))))
    ELSE R(m.p, e.v))

\* parseAndExpression without its loop: AND is not parsed at its level.
parseAndExpression_NoLoop(p) == parseEqualityExpression(p)

parseAndExpression(p) == andLoop(parseEqualityExpression(p))

RECURSIVE orLoop(_)
orLoop(e) ==
    Let(match(e.p, {"OR"}), LAMBDA m :
    IF m.v
    THEN Let(parseAndExpression(m.p), LAMBDA right :
         orLoop(R(right.p, BinaryExpression(e.v, "OR", right.v))))
    ELSE R(m.p, e.v))

parseOrExpression(p) == orLoop(parseAndExpression(p))

parseExpression(p) == parseOrExpression(p)

\* do { if (match(MULTIPLY)) "*" else parseExpression() } while (match(COMMA))
RECURSIVE selectListLoop(_, _)
selectListLoop(p, list) ==
    Let(match(p, {"MULTIPLY"}), LAMBDA m :
    Let(IF m.v THEN R(m.p, ColumnExpression(<< >>, <<"*">>))
        ELSE parseExpression(m.p), LAMBDA item :
    Let(match(item.p, {"COMMA"}), LAMBDA c :
    IF c.v THEN selectListLoop(c.p, Append(list, item.v))
    ELSE R(c.p, Append(list, item.v)))))

\* do { consume(IDENTIFIER); push_back } while (match(COMMA)): the ORDER BY
\* columns and the column list of INSERT.
RECURSIVE identifierListLoop(_, _, _)
identifierListLoop(p, list, message) ==
    Let(consume(p, "IDENTIFIER", message), LAMBDA i :
    IF i.st # "ok" THEN R(i, list) ELSE
    Let(match(i, {"COMMA"}), LAMBDA c :
    IF c.v THEN identifierListLoop(c.p, Append(list, previous(i).value), message)
    ELSE R(c.p, Append(list, previous(i).value))))

\* A statement under construction is R(p, stmt): the parser and what has
\* been assigned to *stmt.  What a parse*Statement returns is the statement,
\* or Nil when the parser threw.
returned(s) == R(s.p, IF s.p.st # "ok" THEN Nil ELSE s.v)

\* previous().value after a consume that did not throw.
consumedValue(p) == IF p.st = "ok" THEN previous(p).value ELSE << >>

\* std::make_unique<SelectStatement>()
SelectStatement ==
    [kind |-> "Select", select_list |-> << >>, from_table |-> << >>,
     where_clause |-> Nil, order_by |-> << >>, order_desc |-> FALSE, limit |-> -1]

\* Parse SELECT list
selectList(s) ==
    Let(selectListLoop(s.p, << >>), LAMBDA sl :
    R(sl.p, [s.v EXCEPT !.select_list = sl.v]))

\* Parse FROM clause
fromClause(s) ==
    Let(consume(consume(s.p, "FROM", "Expected 'FROM' after SELECT list"),
                "IDENTIFIER", "Expected table name after FROM"), LAMBDA f :
    R(f, [s.v EXCEPT !.from_table = consumedValue(f)]))

\* Parse optional WHERE clause
whereClause(s) ==
    Let(match(s.p, {"WHERE"}), LAMBDA m :
    IF m.v
    THEN Let(parseExpression(m.p), LAMBDA e :
         R(e.p, [s.v EXCEPT !.where_clause = e.v]))
    ELSE R(m.p, s.v))

\* Parse optional ORDER BY clause
orderByClause(s) ==
    Let(match(s.p, {"ORDER"}), LAMBDA m :
    IF m.v
    THEN Let(identifierListLoop(consume(m.p, "BY", "Expected 'BY' after ORDER"),
                                << >>, "Expected column name in ORDER BY"), LAMBDA ob :
         Let(match(ob.p, {"DESC"}), LAMBDA desc :
         IF desc.v
         THEN R(desc.p, [s.v EXCEPT !.order_by = ob.v, !.order_desc = TRUE])
         ELSE R(match(desc.p, {"ASC"}).p, [s.v EXCEPT !.order_by = ob.v])))
    ELSE R(m.p, s.v))

\* Parse optional LIMIT clause
limitClause(s) ==
    Let(match(s.p, {"LIMIT"}), LAMBDA m :
    IF m.v
    THEN Let(consume(m.p, "INTEGER_LITERAL", "Expected number after LIMIT"), LAMBDA lc :
         Let(stoi(consumedValue(lc)), LAMBDA n :
         IF lc.st # "ok" THEN R(lc, s.v)
         ELSE IF n.ok THEN R(lc, [s.v EXCEPT !.limit = n.v])
         ELSE R([lc EXCEPT !.st = "error", !.err = <<"stoi">>], s.v)))
    ELSE R(m.p, s.v))

parseSelectStatement(p) ==
    returned(limitClause(orderByClause(whereClause(fromClause(
        selectList(R(p, SelectStatement)))))))

\* do { values.push_back(parseExpression()) } while (match(COMMA))
RECURSIVE valueListLoop(_, _)
valueListLoop(p, values) ==
    Let(parseExpression(p), LAMBDA e :
    Let(match(e.p, {"COMMA"}), LAMBDA c :
    IF c.v THEN valueListLoop(c.p, Append(values, e.v))
    ELSE R(c.p, Append(values, e.v))))

\* do { consume('('); value list; consume(')'); push_back } while (match(COMMA))
RECURSIVE valueListsLoop(_, _)
valueListsLoop(p, lists) ==
    Let(valueListLoop(consume(p, "LEFT_PAREN", "Expected '(' before values"), << >>),
        LAMBDA values :
    Let(match(consume(values.p, "RIGHT_PAREN", "Expected ')' after values"), {"COMMA"}),
        LAMBDA c :
    IF c.v THEN valueListsLoop(c.p, Append(lists, values.v))
    ELSE R(c.p, Append(lists, values.v))))

\* std::make_unique<InsertStatement>()
InsertStatement ==
    [kind |-> "Insert", table_name |-> << >>, columns |-> << >>, values |-> << >>]

\* consume(INTO); consume(IDENTIFIER); stmt->table_name = previous().value
intoClause(s) ==
    Let(consume(consume(s.p, "INTO", "Expected 'INTO' after INSERT"),
                "IDENTIFIER", "Expected table name"), LAMBDA i :
    R(i, [s.v EXCEPT !.table_name = consumedValue(i)]))

\* Parse optional column list
columnList(s) ==
    Let(match(s.p, {"LEFT_PAREN"}), LAMBDA m :
    IF m.v
    THEN Let(identifierListLoop(m.p, << >>, "Expected column name"), LAMBDA cols :
         R(consume(cols.p, "RIGHT_PAREN", "Expected ')' after column list"),
           [s.v EXCEPT !.columns = cols.v]))
    ELSE R(m.p, s.v))

\* consume(VALUES); parse value lists
valueLists(s) ==
    Let(valueListsLoop(consume(s.p, "VALUES", "Expected 'VALUES'"), << >>), LAMBDA lists :
    R(lists.p, [s.v EXCEPT !.values = lists.v]))

parseInsertStatement(p) ==
    returned(valueLists(columnList(intoClause(R(p, InsertStatement)))))

\* while (match({NOT, IDENTIFIER})) { ... }: c is [p, nullable, primary_key].
RECURSIVE constraintLoop(_)
constraintLoop(c) ==
    Let(match(c.p, {"NOT", "IDENTIFIER"}), LAMBDA m :
    IF ~m.v THEN [c EXCEPT !.p = m.p]
    ELSE IF previous(m.p).value = <<"N", "O", "T">>
    THEN constraintLoop([c EXCEPT
            !.p = consume(m.p, "NULL_KW", "Expected 'NULL' after NOT"),
            !.nullable = FALSE])
    ELSE IF previous(m.p).value = <<"P", "R", "I", "M", "A", "R", "Y">>
    THEN Let(consume(m.p, "IDENTIFIER", "Expected 'KEY' after PRIMARY"), LAMBDA k :
         constraintLoop([c EXCEPT
            !.p = IF k.st = "ok" /\ previous(k).value # <<"K", "E", "Y">>
                  THEN error(k, "Expected 'KEY' after PRIMARY")
                  ELSE k,
            !.primary_key = TRUE]))
    ELSE constraintLoop([c EXCEPT !.p = m.p]))

\* do { column definition; emplace_back } while (match(COMMA))
RECURSIVE columnDefLoop(_, _)
columnDefLoop(p, columns) ==
    Let(consume(p, "IDENTIFIER", "Expected column name"), LAMBDA i :
    Let(consumedValue(i), LAMBDA column_name :
    Let(parseDataType(i), LAMBDA data_type :
    Let(constraintLoop([p |-> data_type.p, nullable |-> TRUE, primary_key |-> FALSE]),
        LAMBDA cs :
    IF cs.p.st # "ok" THEN R(cs.p, columns) ELSE
    Let(Column(column_name, data_type.v, cs.nullable, cs.primary_key), LAMBDA col :
    Let(match(cs.p, {"COMMA"}), LAMBDA c :
    IF c.v THEN columnDefLoop(c.p, Append(columns, col))
    ELSE R(c.p, Append(columns, col))))))))

\* std::make_unique<CreateTableStatement>()
CreateTableStatement == [kind |-> "CreateTable", table_name |-> << >>, columns |-> << >>]

\* consume(TABLE); consume(IDENTIFIER); stmt->table_name = previous().value
tableClause(s) ==
    Let(consume(consume(s.p, "TABLE", "Expected 'TABLE' after CREATE"),
                "IDENTIFIER", "Expected table name"), LAMBDA i :
    R(i, [s.v EXCEPT !.table_name = consumedValue(i)]))

\* consume('('); parse column definitions; consume(')')
columnDefs(s) ==
    Let(columnDefLoop(consume(s.p, "LEFT_PAREN", "Expected '(' after table name"), << >>),
        LAMBDA cols :
    R(consume(cols.p, "RIGHT_PAREN", "Expected ')' after column definitions"),
      [s.v EXCEPT !.columns = cols.v]))

parseCreateTableStatement(p) ==
    returned(columnDefs(tableClause(R(p, CreateTableStatement))))

parseDropTableStatement(p) ==
    Let(consume(consume(p, "TABLE", "Expected 'TABLE' after DROP"),
                "IDENTIFIER", "Expected table name"), LAMBDA i :
    R(i, IF i.st # "ok" THEN Nil ELSE DropTableStatement(previous(i).value)))

parseStatement(p) ==
    Let(match(p, {"SELECT"}), LAMBDA m1 :
    IF m1.v THEN parseSelectStatement(m1.p) ELSE
    Let(match(m1.p, {"INSERT"}), LAMBDA m2 :
    IF m2.v THEN parseInsertStatement(m2.p) ELSE
    Let(match(m2.p, {"CREATE"}), LAMBDA m3 :
    IF m3.v THEN parseCreateTableStatement(m3.p) ELSE
    Let(match(m3.p, {"DROP"}), LAMBDA m4 :
    IF m4.v THEN parseDropTableStatement(m4.p)
    ELSE R(error(m4.p, "Expected statement"), Nil)))))

-----------------------------------------------------------------------------
(* Storage (storage.cpp): Schema, Table, Database *)

EmptySchema == [columns_ |-> << >>, column_index_ |-> [n \in {} |-> 0]]

addColumn(schema, col) ==
    [columns_ |-> Append(schema.columns_, col),
     column_index_ |->
        [n \in DOMAIN schema.column_index_ \cup {col.name} |->
            IF n = col.name THEN Len(schema.columns_) ELSE schema.column_index_[n]]]

getColumnCount(schema) == Len(schema.columns_)

\* Schema::getColumn(size_t): the index is 0-based.
getColumn(schema, index) == schema.columns_[index + 1]

Table(name, schema) == [name_ |-> name, schema_ |-> schema, rows_ |-> << >>]

\* validateRow without the per-value checks: only the arity is compared.
validateRow_ArityOnly(table, row) ==
    Len(row) = getColumnCount(table.schema_)

validateRow(table, row) ==
    /\ Len(row) = getColumnCount(table.schema_)
    /\ \A i \in 0 .. Len(row) - 1 :
          LET column == getColumn(table.schema_, i)
              value == row[i + 1]
          IN  /\ ~(~column.nullable /\ isNull(value))
              /\ ~isNull(value) => getType(value) = column.type

\* insertRow with the row put first instead of last.
insertRow_Prepend(table, row) ==
    IF ~validateRow(table, row)
    THEN [st |-> "error", err |-> <<"Row validation failed">>, table |-> table]
    ELSE [st |-> "ok", err |-> << >>, table |-> [table EXCEPT !.rows_ = <<row>> \o @]]

\* insertRow without the validateRow test: every row is appended.
insertRow_Unchecked(table, row) ==
    [st |-> "ok", err |-> << >>, table |-> [table EXCEPT !.rows_ = Append(@, row)]]

\* Table::insertRow: the table after the call, or the exception.
insertRow(table, row) ==
    IF ~validateRow(table, row)
    THEN [st |-> "error", err |-> <<"Row validation failed">>, table |-> table]
    ELSE [st |-> "ok", err |-> << >>, table |-> [table EXCEPT !.rows_ = Append(@, row)]]

EmptyDatabase == [n \in {} |-> 0]

hasTable(tables, name) == name \in DOMAIN tables

\* Database::getTable: a null pointer is Nil.
getTable(tables, name) == IF name \in DOMAIN tables THEN tables[name] ELSE Nil

\* tables_[name] = ...: insert or assign.
putTable(tables, name, table) ==
    [n \in DOMAIN tables \cup {name} |-> IF n = name THEN table ELSE tables[n]]

\* createTable without the hasTable test: the new table replaces the old.
createTable_Overwrite(tables, name, schema) ==
    [st |-> "ok", err |-> << >>, tables |-> putTable(tables, name, Table(name, schema))]

createTable(tables, name, schema) ==
    IF hasTable(tables, name)
    THEN [st |-> "error", err |-> <<"Table already exists: ", name>>, tables |-> tables]
    ELSE [st |-> "ok", err |-> << >>, tables |-> putTable(tables, name, Table(name, schema))]

\* dropTable that clears the whole map instead of erasing one entry.
dropTable_All(tables, name) == EmptyDatabase

\* dropTable without the erase: the table stays.
dropTable_Keep(tables, name) == tables

dropTable(tables, name) == [n \in DOMAIN tables \ {name} |-> tables[n]]

-----------------------------------------------------------------------------
(* LLVMCodeGenerator (llvm_codegen.cpp): the statement visitor *)

RECURSIVE evaluateWhereClause(_, _)
evaluateWhereClause(expr, row) ==
    IF expr.kind = "Binary"
    THEN LET left_val == evaluateWhereClause(expr.left, row)
             right_val == evaluateWhereClause(expr.right, row)
         IN  CASE expr.op = "AND" -> left_val /\ right_val
               [] expr.op = "OR" -> left_val \/ right_val
               [] OTHER -> TRUE
    ELSE IF expr.kind = "Literal" /\ getType(expr.value) = "BOOLEAN"
    THEN expr.value.b
    ELSE TRUE

\* for (const auto& row : rows) { ... results_.push_back(row) }
RECURSIVE selectRows(_, _, _, _)
selectRows(node, rows, k, results) ==
    IF k > Len(rows) THEN results
    ELSE LET include_row == IF node.where_clause # Nil
                            THEN evaluateWhereClause(node.where_clause, rows[k])
                            ELSE TRUE
         IN  selectRows(node, rows, k + 1,
                        IF include_row THEN Append(results, rows[k]) ELSE results)

\* A visit gives [st, err, tables, results]: the Database and results_ after
\* it, and the exception it raised if st = "error".
V(st, err, tables, results) ==
    [st |-> st, err |-> err, tables |-> tables, results |-> results]

visitSelectStatement(node, tables, results) ==
    Let(getTable(tables, node.from_table), LAMBDA current_table_ :
    IF current_table_ = Nil
    THEN V("error", <<"Table not found: ", node.from_table>>, tables, results)
    ELSE V("ok", << >>, tables, selectRows(node, current_table_.rows_, 1, results)))

\* for (const auto& expr : value_list): the row, or the exception.
RECURSIVE buildRow(_, _, _)
buildRow(value_list, k, row) ==
    IF k > Len(value_list) THEN [st |-> "ok", row |-> row]
    ELSE IF value_list[k].kind = "Literal"
    THEN buildRow(value_list, k + 1, Append(row, value_list[k].value))
    ELSE [st |-> "error", row |-> row]

\* for (const auto& value_list : node.values) { ...; insertRow(row) }
RECURSIVE insertLists(_, _, _)
insertLists(node, k, table) ==
    IF k > Len(node.values) THEN [st |-> "ok", err |-> << >>, table |-> table]
    ELSE Let(buildRow(node.values[k], 1, << >>), LAMBDA b :
         IF b.st # "ok"
         THEN [st |-> "error",
               err |-> <<"Complex expressions in INSERT not yet supported">>,
               table |-> table]
         ELSE Let(insertRow(table, b.row), LAMBDA ins :
              IF ins.st # "ok" THEN ins
              ELSE insertLists(node, k + 1, ins.table)))

visitInsertStatement(node, tables, results) ==
    Let(getTable(tables, node.table_name), LAMBDA current_table_ :
    IF current_table_ = Nil
    THEN V("error", <<"Table not found: ", node.table_name>>, tables, results)
    ELSE Let(insertLists(node, 1, current_table_), LAMBDA r :
         V(r.st, r.err, putTable(tables, node.table_name, r.table), results)))

RECURSIVE buildSchema(_, _, _)
buildSchema(columns, k, schema) ==
    IF k > Len(columns) THEN schema
    ELSE buildSchema(columns, k + 1, addColumn(schema, columns[k]))

visitCreateTableStatement(node, tables, results) ==
    Let(buildSchema(node.columns, 1, EmptySchema), LAMBDA schema :
    Let(createTable(tables, node.table_name, schema), LAMBDA r :
    V(r.st, r.err, r.tables, results)))

visitDropTableStatement(node, tables, results) ==
    V("ok", << >>, dropTable(tables, node.table_name), results)

\* statement.accept(*this)
accept(statement, tables, results) ==
    CASE statement.kind = "Select" -> visitSelectStatement(statement, tables, results)
      [] statement.kind = "Insert" -> visitInsertStatement(statement, tables, results)
      [] statement.kind = "CreateTable" -> visitCreateTableStatement(statement, tables, results)
      [] statement.kind = "DropTable" -> visitDropTableStatement(statement, tables, results)

-----------------------------------------------------------------------------
(* The SQL texts given to execute *)

\* CREATE TABLE users (id INTEGER, name TEXT, age INTEGER, active BOOLEAN)
SqlCreateUsers ==
    <<"C","R","E","A","T","E"," ","T","A","B","L","E"," ","u","s","e","r","s",
      " ","(","i","d"," ","I","N","T","E","G","E","R",","," ","n","a","m","e",
      " ","T","E","X","T",","," ","a","g","e"," ","I","N","T","E","G","E","R",
      ","," ","a","c","t","i","v","e"," ","B","O","O","L","E","A","N",")">>

\* INSERT INTO users VALUES (1, 'Alice', 30, true)
SqlInsertAlice ==
    <<"I","N","S","E","R","T"," ","I","N","T","O"," ","u","s","e","r","s"," ",
      "V","A","L","U","E","S"," ","(","1",","," ","'","A","l","i","c","e","'",
      ","," ","3","0",","," ","t","r","u","e",")">>

\* SELECT * FROM users
SqlSelectUsers ==
    <<"S","E","L","E","C","T"," ","*"," ","F","R","O","M"," ","u","s","e","r",
      "s">>

\* CREATE TABLE t (c INTEGER)
SqlCreateT ==
    <<"C","R","E","A","T","E"," ","T","A","B","L","E"," ","t"," ","(","c"," ",
      "I","N","T","E","G","E","R",")">>

\* CREATE TABLE t (c INTEGER NOT NULL, d TEXT)
SqlCreateT2 ==
    <<"C","R","E","A","T","E"," ","T","A","B","L","E"," ","t"," ","(","c"," ",
      "I","N","T","E","G","E","R"," ","N","O","T"," ","N","U","L","L",","," ",
      "d"," ","T","E","X","T",")">>

\* CREATE TABLE t (c INTEGER, c TEXT)
SqlCreateDup ==
    <<"C","R","E","A","T","E"," ","T","A","B","L","E"," ","t"," ","(","c"," ",
      "I","N","T","E","G","E","R",","," ","c"," ","T","E","X","T",")">>

\* INSERT INTO t VALUES (3), (1), (2)
SqlInsert312 ==
    <<"I","N","S","E","R","T"," ","I","N","T","O"," ","t"," ","V","A","L","U",
      "E","S"," ","(","3",")",","," ","(","1",")",","," ","(","2",")">>

\* INSERT INTO t VALUES (1), ('x')
SqlInsertBadType ==
    <<"I","N","S","E","R","T"," ","I","N","T","O"," ","t"," ","V","A","L","U",
      "E","S"," ","(","1",")",","," ","(","'","x","'",")">>

\* INSERT INTO t VALUES (2), (1+1)
SqlInsertNonLiteral ==
    <<"I","N","S","E","R","T"," ","I","N","T","O"," ","t"," ","V","A","L","U",
      "E","S"," ","(","2",")",","," ","(","1","+","1",")">>

\* INSERT INTO t VALUES (NULL, 'a')
SqlInsertNullA ==
    <<"I","N","S","E","R","T"," ","I","N","T","O"," ","t"," ","V","A","L","U",
      "E","S"," ","(","N","U","L","L",","," ","'","a","'",")">>

\* INSERT INTO t VALUES (1, NULL)
SqlInsert1Null ==
    <<"I","N","S","E","R","T"," ","I","N","T","O"," ","t"," ","V","A","L","U",
      "E","S"," ","(","1",","," ","N","U","L","L",")">>

\* SELECT * FROM t;
SqlSelectT ==
    <<"S","E","L","E","C","T"," ","*"," ","F","R","O","M"," ","t",";">>

\* SELECT * FROM t WHERE true
SqlSelectTrue ==
    <<"S","E","L","E","C","T"," ","*"," ","F","R","O","M"," ","t"," ","W","H",
      "E","R","E"," ","t","r","u","e">>

\* SELECT * FROM t WHERE true 
SqlSelectTrueSp ==
    <<"S","E","L","E","C","T"," ","*"," ","F","R","O","M"," ","t"," ","W","H",
      "E","R","E"," ","t","r","u","e"," ">>

\* SELECT * FROM t WHERE false 
SqlSelectFalse ==
    <<"S","E","L","E","C","T"," ","*"," ","F","R","O","M"," ","t"," ","W","H",
      "E","R","E"," ","f","a","l","s","e"," ">>

\* SELECT * FROM t ORDER BY c LIMIT 2 
SqlSelectOrderLimit ==
    <<"S","E","L","E","C","T"," ","*"," ","F","R","O","M"," ","t"," ","O","R",
      "D","E","R"," ","B","Y"," ","c"," ","L","I","M","I","T"," ","2"," ">>

\* SELECT * FROM t ORDER BY c DESC LIMIT 2 
SqlSelectOrderDescLimit ==
    <<"S","E","L","E","C","T"," ","*"," ","F","R","O","M"," ","t"," ","O","R",
      "D","E","R"," ","B","Y"," ","c"," ","D","E","S","C"," ","L","I","M","I",
      "T"," ","2"," ">>

\* DROP TABLE t
SqlDropT ==
    <<"D","R","O","P"," ","T","A","B","L","E"," ","t">>

\* ''
SqlEmpty ==
    <<>>

\* ' '
SqlBlank ==
    <<" ">>

\* @
SqlAt ==
    <<"@">>

\* INSERT INTO t (d, c) VALUES ('a', 1) 
SqlInsertDC ==
    <<"I","N","S","E","R","T"," ","I","N","T","O"," ","t"," ","(","d",","," ",
      "c",")"," ","V","A","L","U","E","S"," ","(","'","a","'",","," ","1",")",
      " ">>

\* INSERT INTO t VALUES (-1) 
SqlInsertMinus ==
    <<"I","N","S","E","R","T"," ","I","N","T","O"," ","t"," ","V","A","L","U",
      "E","S"," ","(","-","1",")"," ">>

\* SELECT c, c FROM t 
SqlSelectCC ==
    <<"S","E","L","E","C","T"," ","c",","," ","c"," ","F","R","O","M"," ","t",
      " ">>

\* SELECT * FROM t WHERE 1 < 2 AND NOT true 
SqlSelectWhereExpr ==
    <<"S","E","L","E","C","T"," ","*"," ","F","R","O","M"," ","t"," ","W","H",
      "E","R","E"," ","1"," ","<"," ","2"," ","A","N","D"," ","N","O","T"," ",
      "t","r","u","e"," ">>

\* SELECT * FROM t WHERE 1 
SqlSelectWhere1 ==
    <<"S","E","L","E","C","T"," ","*"," ","F","R","O","M"," ","t"," ","W","H",
      "E","R","E"," ","1"," ">>

\* CREATE TABLE t (c INTEGER not null primary key) 
SqlCreateLower ==
    <<"C","R","E","A","T","E"," ","T","A","B","L","E"," ","t"," ","(","c"," ",
      "I","N","T","E","G","E","R"," ","n","o","t"," ","n","u","l","l"," ","p",
      "r","i","m","a","r","y"," ","k","e","y",")"," ">>

SqlTexts ==
    {SqlCreateUsers, SqlInsertAlice, SqlSelectUsers,
     SqlCreateT, SqlCreateT2, SqlCreateDup,
     SqlInsert312, SqlInsertBadType, SqlInsertNonLiteral,
     SqlInsertNullA, SqlInsert1Null, SqlSelectT,
     SqlSelectTrue, SqlSelectTrueSp, SqlSelectFalse,
     SqlSelectOrderLimit, SqlSelectOrderDescLimit, SqlDropT,
     SqlEmpty, SqlBlank, SqlAt,
     SqlInsertDC, SqlInsertMinus, SqlSelectCC, SqlSelectWhereExpr, SqlSelectWhere1, SqlCreateLower}

-----------------------------------------------------------------------------
(* Bounds *)

\* The number of tokens' worth of memory behind tokens_ a read may reach.
MaxMem == 2
\* The most rows the tables of the Database hold together.
MaxRows == 3
\* The longest input of the lexer under test.
MaxLen == 3

-----------------------------------------------------------------------------
(* What lies behind the token vector *)

GarbageTokens ==
    { Token("EOF_TOKEN", << >>, 0),
      Token("INTEGER_LITERAL", << >>, 0),
      Token("WHERE", << >>, 0),
      Token("FALSE", << >>, 0) }

RECURSIVE SeqsUpTo(_, _)
SeqsUpTo(S, n) ==
    IF n = 0 THEN {<< >>}
    ELSE LET shorter == SeqsUpTo(S, n - 1)
         IN  shorter \cup {Append(q, x) : q \in {r \in shorter : Len(r) = n - 1}, x \in S}

Mems == SeqsUpTo(GarbageTokens, MaxMem)

-----------------------------------------------------------------------------
(* QueryEngine::execute (query_engine.cpp) *)

\* What a call leaves: pc "returned" with the rows ret, or "crashed".
Outcome(c, tables, err, results, module, rows) ==
    [pc |-> c, tables |-> tables, err |-> err, results |-> results,
     module |-> module, ret |-> rows]

\* Parser parser(tokens); parser.parseStatement(): the statement, or the
\* exception, and whether the parser read past the end of tokens_.
parse(tokens, mem) ==
    Let(parseStatement(Parser(tokens, mem)), LAMBDA r :
    [st |-> r.p.st, err |-> r.p.err, statement |-> r.v, oob |-> r.p.oob])

\* Steps 1 and 2 of execute: Lexer::tokenize (empty: tokens.empty()), then
\* Parser::parseStatement on the tokens, for each content of the memory
\* behind them.
lexAndParse(sql) ==
    Let(tokenize(sql), LAMBDA tokens :
    [empty |-> tokens = << >>,
     parsed |-> IF tokens = << >> THEN {} ELSE {parse(tokens, mem) : mem \in Mems}])

ParseCache == [sql \in SqlTexts |-> lexAndParse(sql)]

\* generateCode without results_.clear(): results_ is kept.
clear_Keep(results) == results

\* results_.clear() of generateCode: results_ after it.
clear(results) == << >>

\* generateCode and execute on a parsed statement.  module_ and context_ are
\* null once compileAndExecute has moved them into the JIT; each use of them
\* after that is a null dereference, whose outcome is open: the process dies,
\* the call raises, or the call goes on.  With the module valid, verifyModule
\* accepts it; compileAndExecute then moves it if there is a JIT, and for a
\* statement other than SELECT drops the failed lookup's llvm::Expected
\* unchecked, which aborts in a build of LLVM that checks it.
generateCodeAndExecute(statement, tables, results, jit, module) ==
    Let(accept(statement, tables, clear(results)), LAMBDA v :
    Let(Outcome("crashed", v.tables, << >>, v.results, module, << >>), LAMBDA crashed :
    Let(Outcome("returned", v.tables, << >>, v.results,
                IF jit THEN "null" ELSE module, v.results), LAMBDA done :
    IF v.st = "error"
    THEN {Outcome("returned", v.tables, v.err, v.results, module, << >>)}
    ELSE IF module = "null"
    THEN {crashed, done,
          Outcome("returned", v.tables, <<"LLVM module verification failed">>,
                  v.results, module, << >>),
          Outcome("returned", v.tables, <<"Failed to add module to JIT">>,
                  v.results, module, << >>)}
    ELSE IF jit /\ statement.kind # "Select"
    THEN {crashed, done}
    ELSE {done})))

executeOutcomes(sql, tables, results, jit, module) ==
    Let(ParseCache[sql], LAMBDA parsed_sql :
    IF parsed_sql.empty
    THEN {Outcome("returned", tables, <<"No tokens found in SQL">>, results, module, << >>)}
    ELSE UNION { CASE r.st = "crash" ->
                        {Outcome("crashed", tables, << >>, results, module, << >>)}
                   [] r.st = "error" ->
                        {Outcome("returned", tables, r.err, results, module, << >>)}
                   [] OTHER -> generateCodeAndExecute(r.statement, tables, results, jit, module)
                 : r \in parsed_sql.parsed })

\* clearError without the clear: last_error_ is kept.
clearError_Keep(last_error) == last_error

\* QueryEngine::clearError and setError: last_error_ after the call.
clearError(last_error) == << >>

setError(last_error, what) == what

RECURSIVE SumRows(_, _)
SumRows(tables, names) ==
    IF names = {} THEN 0
    ELSE LET n == CHOOSE x \in names : TRUE
         IN  Len(tables[n].rows_) + SumRows(tables, names \ {n})

RowCount(tables) == SumRows(tables, DOMAIN tables)

Execute(sql) ==
    /\ pc # "crashed"
    /\ \E o \in executeOutcomes(sql, tables_, results_, jit_, module_) :
          /\ RowCount(o.tables) <= MaxRows
          /\ tables_' = o.tables
          /\ last_error_' = IF o.err = << >>
                            THEN clearError(last_error_)
                            ELSE setError(clearError(last_error_), o.err)
          /\ results_' = o.results
          /\ module_' = o.module
          /\ pc' = o.pc
          /\ ret' = o.ret
    /\ sql_in' = sql
    /\ UNCHANGED <<jit_, lexVars, tableVars, valueVars, exprVars>>

Init ==
    /\ tables_ = EmptyDatabase
    /\ last_error_ = << >>
    /\ results_ = << >>
    /\ jit_ \in BOOLEAN
    /\ module_ = "valid"
    /\ pc = "idle"
    /\ sql_in = << >>
    /\ ret = << >>
    /\ lex_input = << >>
    /\ position_ = 0
    /\ lex_tokens = << >>
    /\ lex_pc = "done"
    /\ table_ = Table(<< >>, EmptySchema)
    /\ row_in = << >>
    /\ insert_err = << >>
    /\ cmp_in = << >>
    /\ cmp_out = << >>
    /\ expr_in = << >>
    /\ expr_out = << >>

Next == \E sql \in SqlTexts : Execute(sql)

Spec == Init /\ [][Next]_vars

-----------------------------------------------------------------------------
(* Lexer::tokenize, one iteration of its loop at a time, on every input of  *)
(* at most MaxLen characters over LexAlphabet.                               *)

LexAlphabet == {"a", "1", " ", "'", "-", "@", "!", "=", "."}

LexInit ==
    /\ tables_ = EmptyDatabase
    /\ last_error_ = << >>
    /\ results_ = << >>
    /\ jit_ = FALSE
    /\ module_ = "valid"
    /\ pc = "idle"
    /\ sql_in = << >>
    /\ ret = << >>
    /\ lex_input \in SeqsUpTo(LexAlphabet, MaxLen)
    /\ position_ = 0
    /\ lex_tokens = << >>
    /\ lex_pc = "loop"
    /\ table_ = Table(<< >>, EmptySchema)
    /\ row_in = << >>
    /\ insert_err = << >>
    /\ cmp_in = << >>
    /\ cmp_out = << >>
    /\ expr_in = << >>
    /\ expr_out = << >>

\* while (hasNext()) { Token token = nextToken(); ... }
LexStep ==
    /\ lex_pc = "loop"
    /\ hasNext(lex_input, position_)
    /\ LET s == tokenizeStep(lex_input, position_, lex_tokens)
       IN  /\ position_' = s.pos
           /\ lex_tokens' = s.tokens
           /\ lex_pc' = IF s.brk THEN "done" ELSE "loop"
    /\ UNCHANGED <<lex_input, engineVars, tableVars, valueVars, exprVars>>

\* return tokens;
LexReturn ==
    /\ lex_pc = "loop"
    /\ ~hasNext(lex_input, position_)
    /\ lex_pc' = "done"
    /\ UNCHANGED <<lex_input, position_, lex_tokens, engineVars, tableVars,
                   valueVars, exprVars>>

LexNext == LexStep \/ LexReturn

LexSpec == LexInit /\ [][LexNext]_vars

\* tokenize() is one synchronous call: nothing suspends its while loop, so an
\* enabled iteration (or the return) is eventually executed.
LexFairSpec == LexSpec /\ WF_vars(LexNext)

-----------------------------------------------------------------------------
(* Table::insertRow on a Table of each of the schemas below, with every row *)
(* over TableValues of at most one value more than the table has columns.   *)

NameD == <<"d">>
NameE == <<"e">>

\* (c INTEGER NOT NULL), (c INTEGER, d TEXT),
\* (c INTEGER NOT NULL, d TEXT, e INTEGER)
TableSchemas ==
    {addColumn(EmptySchema, Column(<<"c">>, "INTEGER", FALSE, FALSE)),
     addColumn(addColumn(EmptySchema, Column(<<"c">>, "INTEGER", TRUE, FALSE)),
               Column(NameD, "TEXT", TRUE, FALSE)),
     addColumn(addColumn(addColumn(EmptySchema,
                                   Column(<<"c">>, "INTEGER", FALSE, FALSE)),
                         Column(NameD, "TEXT", TRUE, FALSE)),
               Column(NameE, "INTEGER", TRUE, FALSE))}

TableValues == {IntV(1), TextV(<<"x">>), NullV}

\* The rows given to insertRow on a table of each schema.
TableRows ==
    [schema \in TableSchemas |->
        SeqsUpTo(TableValues, getColumnCount(schema) + 1)]

TableInit ==
    /\ tables_ = EmptyDatabase
    /\ last_error_ = << >>
    /\ results_ = << >>
    /\ jit_ = FALSE
    /\ module_ = "valid"
    /\ pc = "idle"
    /\ sql_in = << >>
    /\ ret = << >>
    /\ lex_input = << >>
    /\ position_ = 0
    /\ lex_tokens = << >>
    /\ lex_pc = "done"
    /\ table_ \in {Table(<<"t">>, schema) : schema \in TableSchemas}
    /\ row_in = << >>
    /\ insert_err = << >>
    /\ cmp_in = << >>
    /\ cmp_out = << >>
    /\ expr_in = << >>
    /\ expr_out = << >>

\* table.insertRow(row), the exception caught by the caller.
InsertRow(row) ==
    /\ Len(table_.rows_) < MaxRows
    /\ LET r == insertRow(table_, row)
       IN  /\ table_' = r.table
           /\ insert_err' = r.err
    /\ row_in' = row
    /\ UNCHANGED <<engineVars, lexVars, valueVars, exprVars>>

TableNext == \E row \in TableRows[table_.schema_] : InsertRow(row)

TableSpec == TableInit /\ [][TableNext]_vars

-----------------------------------------------------------------------------
(* The comparison operators of Value on every triple of the values below.   *)

CmpValues ==
    {IntV(0 - 1), IntV(0), IntV(1),
     TextV(<< >>), TextV(<<"a">>), TextV(<<"a", "b">>), TextV(<<"b">>),
     BoolV(FALSE), BoolV(TRUE), NullV}

ValueInit ==
    /\ tables_ = EmptyDatabase
    /\ last_error_ = << >>
    /\ results_ = << >>
    /\ jit_ = FALSE
    /\ module_ = "valid"
    /\ pc = "idle"
    /\ sql_in = << >>
    /\ ret = << >>
    /\ lex_input = << >>
    /\ position_ = 0
    /\ lex_tokens = << >>
    /\ lex_pc = "done"
    /\ table_ = Table(<< >>, EmptySchema)
    /\ row_in = << >>
    /\ insert_err = << >>
    /\ cmp_in \in CmpValues \X CmpValues \X CmpValues
    /\ cmp_out = << >>
    /\ expr_in = << >>
    /\ expr_out = << >>

\* a < b, b < a, a == b, a <= b, a > b, a >= b, b < c, a < c
Compare ==
    /\ cmp_out = << >>
    /\ cmp_out' = [lt_ab |-> Value_less(cmp_in[1], cmp_in[2]),
                   lt_ba |-> Value_less(cmp_in[2], cmp_in[1]),
                   eq_ab |-> Value_eq(cmp_in[1], cmp_in[2]),
                   le_ab |-> Value_le(cmp_in[1], cmp_in[2]),
                   gt_ab |-> Value_gt(cmp_in[1], cmp_in[2]),
                   ge_ab |-> Value_ge(cmp_in[1], cmp_in[2]),
                   lt_bc |-> Value_less(cmp_in[2], cmp_in[3]),
                   lt_ac |-> Value_less(cmp_in[1], cmp_in[3])]
    /\ UNCHANGED <<cmp_in, engineVars, lexVars, tableVars, exprVars>>

ValueNext == Compare

ValueSpec == ValueInit /\ [][ValueNext]_vars

-----------------------------------------------------------------------------
(* Parser::parseExpression on the tokens Lexer::tokenize gives for each of  *)
(* the expression texts below.  Every text ends with a space, so that its   *)
(* tokens end with EOF_TOKEN.                                                *)

\* The binary operators: their text, the Operator they stand for and their
\* level in the grammar, from OR (1) to the multiplicative operators (6).
BinaryOps ==
    {[text |-> <<"O", "R">>, op |-> "OR", level |-> 1],
     [text |-> <<"A", "N", "D">>, op |-> "AND", level |-> 2],
     [text |-> <<"=">>, op |-> "EQUAL", level |-> 3],
     [text |-> <<"<", ">">>, op |-> "NOT_EQUAL", level |-> 3],
     [text |-> <<"!", "=">>, op |-> "NOT_EQUAL", level |-> 3],
     [text |-> <<"<">>, op |-> "LESS_THAN", level |-> 4],
     [text |-> <<"<", "=">>, op |-> "LESS_EQUAL", level |-> 4],
     [text |-> <<">">>, op |-> "GREATER_THAN", level |-> 4],
     [text |-> <<">", "=">>, op |-> "GREATER_EQUAL", level |-> 4],
     [text |-> <<"+">>, op |-> "ADD", level |-> 5],
     [text |-> <<"-">>, op |-> "SUBTRACT", level |-> 5],
     [text |-> <<"*">>, op |-> "MULTIPLY", level |-> 6],
     [text |-> <<"/">>, op |-> "DIVIDE", level |-> 6]}

UnaryOps ==
    {[text |-> <<"N", "O", "T">>, op |-> "NOT"],
     [text |-> <<"-">>, op |-> "MINUS"]}

\* a o1 b o2 c
BinaryText(o1, o2) ==
    <<"a", " ">> \o o1.text \o <<" ", "b", " ">> \o o2.text \o <<" ", "c", " ">>

\* u1 u2 a
UnaryText(u1, u2) == u1.text \o <<" ">> \o u2.text \o <<" ", "a", " ">>

\* u a o b
MixedText(u, o) ==
    u.text \o <<" ", "a", " ">> \o o.text \o <<" ", "b", " ">>

\* The literal texts, each with the kind of token it is scanned as and the
\* Value it denotes: 0, 7, 42, 007, 1.5, 'ab', '', TRUE, true, False, NULL,
\* null.
LiteralCases ==
    {<<(<<"0", " ">>), "INTEGER_LITERAL", IntV(0)>>,
     <<(<<"7", " ">>), "INTEGER_LITERAL", IntV(7)>>,
     <<(<<"4", "2", " ">>), "INTEGER_LITERAL", IntV(42)>>,
     <<(<<"0", "0", "7", " ">>), "INTEGER_LITERAL", IntV(7)>>,
     <<(<<"1", ".", "5", " ">>), "REAL_LITERAL", RealV(<<1, <<"5">>>>)>>,
     <<(<<"'", "a", "b", "'", " ">>), "STRING_LITERAL", TextV(<<"a", "b">>)>>,
     <<(<<"'", "'", " ">>), "STRING_LITERAL", TextV(<< >>)>>,
     <<(<<"T", "R", "U", "E", " ">>), "TRUE", BoolV(TRUE)>>,
     <<(<<"t", "r", "u", "e", " ">>), "TRUE", BoolV(TRUE)>>,
     <<(<<"F", "a", "l", "s", "e", " ">>), "FALSE", BoolV(FALSE)>>,
     <<(<<"N", "U", "L", "L", " ">>), "NULL_KW", NullV>>,
     <<(<<"n", "u", "l", "l", " ">>), "NULL_KW", NullV>>}

ExprTexts ==
    {BinaryText(o1, o2) : o1 \in BinaryOps, o2 \in BinaryOps}
        \cup {UnaryText(u1, u2) : u1 \in UnaryOps, u2 \in UnaryOps}
        \cup {MixedText(u, o) : u \in UnaryOps, o \in BinaryOps}
        \cup {l[1] : l \in LiteralCases}

ExprInit ==
    /\ tables_ = EmptyDatabase
    /\ last_error_ = << >>
    /\ results_ = << >>
    /\ jit_ = FALSE
    /\ module_ = "valid"
    /\ pc = "idle"
    /\ sql_in = << >>
    /\ ret = << >>
    /\ lex_input = << >>
    /\ position_ = 0
    /\ lex_tokens = << >>
    /\ lex_pc = "done"
    /\ table_ = Table(<< >>, EmptySchema)
    /\ row_in = << >>
    /\ insert_err = << >>
    /\ cmp_in = << >>
    /\ cmp_out = << >>
    /\ expr_in \in ExprTexts
    /\ expr_out = << >>

\* Lexer lexer(text); Parser parser(lexer.tokenize()); parser.parseExpression():
\* the tokens, the expression, the parser's state and position after it.
parseExpressionOf(text) ==
    Let(tokenize(text), LAMBDA tokens :
    Let(parseExpression(Parser(tokens, << >>)), LAMBDA r :
    [tokens |-> tokens, st |-> r.p.st, err |-> r.p.err, expr |-> r.v,
     current_ |-> r.p.current_]))

ParseExpression ==
    /\ expr_out = << >>
    /\ expr_out' = parseExpressionOf(expr_in)
    /\ UNCHANGED <<expr_in, engineVars, lexVars, tableVars, valueVars>>

ExprNext == ParseExpression

ExprSpec == ExprInit /\ [][ExprNext]_vars

-----------------------------------------------------------------------------
(* Properties of QueryEngine::execute, stated on the state after a call:    *)
(* sql_in is the text of the last call, ret the rows it returned, pc tells  *)
(* whether it returned at all.                                               *)

NameUsers == <<"u", "s", "e", "r", "s">>
NameT == <<"t">>
NameC == <<"c">>
AliceRow == <<IntV(1), TextV(<<"A", "l", "i", "c", "e">>), IntV(30), BoolV(TRUE)>>

\* C1: after CREATE TABLE users and INSERT of (1, 'Alice', 30, true), the call
\* execute("SELECT * FROM users") returns exactly that one row and leaves the
\* last error empty; so does SELECT * on any table that holds exactly one
\* inserted row.
C1_SelectReturnsInsertedRow ==
    (/\ sql_in = SqlSelectUsers
     /\ hasTable(tables_, NameUsers)
     /\ tables_[NameUsers].rows_ = <<AliceRow>>)
        => (pc = "returned" /\ ret = <<AliceRow>> /\ last_error_ = << >>)

\* C2: execute always returns to its caller, and a call that sets a last
\* error returns no rows.
C2_ExecuteReturnsNormally ==
    /\ pc # "crashed"
    /\ last_error_ # << >> => ret = << >>

InsertFailures ==
    {<<"Row validation failed">>,
     <<"Complex expressions in INSERT not yet supported">>}

\* C3: an INSERT that fails because one of its value lists is rejected by
\* the row validation or by the non-literal check stores no row at all: the
\* Database is the one before the call.
C3_FailedInsertStoresNothing ==
    [][(pc' = "returned" /\ last_error_' \in InsertFailures)
          => tables_' = tables_]_vars

RowConforms(schema, row) ==
    /\ Len(row) = Len(schema.columns_)
    /\ \A i \in 1 .. Len(row) :
          /\ row[i].type # "NULL_TYPE" => row[i].type = schema.columns_[i].type
          /\ ~schema.columns_[i].nullable => row[i].type # "NULL_TYPE"

\* C4: every row stored in a table has as many values as the table has
\* columns, every non-null value has the declared type of its column, and no
\* null is stored in a column that is not nullable.
C4_StoredRowsConform ==
    \A n \in DOMAIN tables_ :
        \A k \in 1 .. Len(tables_[n].rows_) :
            RowConforms(tables_[n].schema_, tables_[n].rows_[k])

\* A table with a NOT NULL column holds a row with a null in another column.
C4_Witness ==
    \E n \in DOMAIN tables_ :
        /\ \E i \in 1 .. Len(tables_[n].schema_.columns_) :
              ~tables_[n].schema_.columns_[i].nullable
        /\ \E k \in 1 .. Len(tables_[n].rows_) :
              \E i \in 1 .. Len(tables_[n].rows_[k]) :
                  tables_[n].rows_[k][i].type = "NULL_TYPE"

\* C5: the column names of every stored Schema are pairwise distinct.
C5_DistinctColumnNames ==
    \A n \in DOMAIN tables_ :
        LET columns == tables_[n].schema_.columns_
        IN  \A i, j \in 1 .. Len(columns) :
                columns[i].name = columns[j].name => i = j

\* The CREATE TABLE texts with the name of the table each creates.
CreateTexts ==
    {<<SqlCreateUsers, NameUsers>>, <<SqlCreateT, NameT>>,
     <<SqlCreateT2, NameT>>, <<SqlCreateDup, NameT>>}

\* C6: CREATE TABLE of a name that already exists fails with "Table already
\* exists: <name>", returns no rows and leaves the Database as it was: the
\* existing table keeps its schema and its rows.
C6_CreateExistingFails ==
    [][\A c \in CreateTexts :
          (sql_in' = c[1] /\ hasTable(tables_, c[2]))
              => /\ pc' = "returned"
                 /\ ret' = << >>
                 /\ last_error_' = <<"Table already exists: ", c[2]>>
                 /\ tables_' = tables_]_vars

\* CREATE TABLE t (c INTEGER NOT NULL, d TEXT) has just failed on a table t
\* of one column that holds rows.
C6_Witness ==
    /\ sql_in = SqlCreateT2
    /\ pc = "returned"
    /\ last_error_ = <<"Table already exists: ", NameT>>
    /\ hasTable(tables_, NameT)
    /\ getColumnCount(tables_[NameT].schema_) = 1
    /\ tables_[NameT].rows_ # << >>

\* C7: DROP TABLE never fails, whether the table exists or not, and leaves
\* the table absent; a SELECT on an absent table fails with "Table not
\* found: <name>".
C7_DropNeverFails ==
    /\ sql_in = SqlDropT
          => (pc = "returned" /\ last_error_ = << >> /\ ret = << >>
              /\ ~hasTable(tables_, NameT))
    /\ (sql_in = SqlSelectT /\ ~hasTable(tables_, NameT))
          => (pc = "returned" /\ ret = << >>
              /\ last_error_ = <<"Table not found: ", NameT>>)

\* The rows in the order of the values of column index, ascending or
\* descending under Value::operator<; rows of equal keys keep their order.
RECURSIVE insertStable(_, _, _, _)
insertStable(sorted, row, index, desc) ==
    IF sorted = << >> THEN <<row>>
    ELSE LET last == sorted[Len(sorted)]
             before == IF desc THEN Value_less(last[index + 1], row[index + 1])
                               ELSE Value_less(row[index + 1], last[index + 1])
         IN  IF before
             THEN Append(insertStable(SubSeq(sorted, 1, Len(sorted) - 1),
                                      row, index, desc), last)
             ELSE Append(sorted, row)

RECURSIVE stableSort(_, _, _)
stableSort(rows, index, desc) ==
    IF rows = << >> THEN << >>
    ELSE insertStable(stableSort(SubSeq(rows, 1, Len(rows) - 1), index, desc),
                      rows[Len(rows)], index, desc)

firstN(rows, n) == SubSeq(rows, 1, IF Len(rows) < n THEN Len(rows) ELSE n)

\* The ORDER BY c LIMIT 2 texts with their direction (TRUE: DESC).
OrderLimitTexts ==
    {<<SqlSelectOrderLimit, FALSE>>, <<SqlSelectOrderDescLimit, TRUE>>}

\* C8: SELECT * FROM t ORDER BY c [DESC] LIMIT 2, when it succeeds, returns
\* the first 2 rows of the table's rows stably sorted by column c.
C8_OrderByLimit ==
    \A q \in OrderLimitTexts :
        (/\ sql_in = q[1]
         /\ pc = "returned"
         /\ last_error_ = << >>
         /\ hasTable(tables_, NameT))
            => LET table == tables_[NameT]
               IN  ret = firstN(stableSort(table.rows_,
                                           table.schema_.column_index_[NameC],
                                           q[2]), 2)

\* C9: on an existing table, SELECT * with WHERE true returns all its rows
\* and with WHERE false none, in both cases without an error.
C9_WhereLiteral ==
    /\ (sql_in \in {SqlSelectTrue, SqlSelectTrueSp} /\ hasTable(tables_, NameT))
          => (pc = "returned" /\ ret = tables_[NameT].rows_
              /\ last_error_ = << >>)
    /\ (sql_in = SqlSelectFalse /\ hasTable(tables_, NameT))
          => (pc = "returned" /\ ret = << >> /\ last_error_ = << >>)

\* C10: the sequence tokenize returns holds exactly one EOF_TOKEN, as its
\* last element.
C10_TokenizeEndsWithEof ==
    lex_pc = "done"
        => /\ lex_tokens # << >>
           /\ lex_tokens[Len(lex_tokens)].type = "EOF_TOKEN"
           /\ Cardinality({i \in DOMAIN lex_tokens :
                              lex_tokens[i].type = "EOF_TOKEN"}) = 1

\* C11: Table::insertRow appends the row, as the last one, exactly when the
\* row has as many values as the table has columns and each value is a null
\* in a nullable column or has its column's declared type; otherwise it
\* raises "Row validation failed" and leaves the table as it was.
C11_InsertRowValidates ==
    [][IF RowConforms(table_.schema_, row_in')
       THEN /\ insert_err' = << >>
            /\ table_' = [table_ EXCEPT !.rows_ = Append(table_.rows_, row_in')]
       ELSE /\ insert_err' = <<"Row validation failed">>
            /\ table_' = table_]_vars

\* A 3-column table that holds a row has just rejected the row (1, 'x').
C11_Witness ==
    /\ getColumnCount(table_.schema_) = 3
    /\ table_.rows_ # << >>
    /\ row_in = <<IntV(1), TextV(<<"x">>)>>
    /\ insert_err = <<"Row validation failed">>

\* C12: the last error tells about the most recent call only.  When execute
\* returns, the last error is empty if and only if that call succeeded, and
\* otherwise it is the error of that call, whatever the last error was
\* before the call.
C12_LastErrorOfLastCall ==
    [][pc' = "returned"
          => \E o \in executeOutcomes(sql_in', tables_, results_, jit_, module_) :
                /\ o.pc = "returned"
                /\ o.tables = tables_'
                /\ o.ret = ret'
                /\ last_error_' = << >> <=> o.err = << >>
                /\ last_error_' # << >> => last_error_' = o.err]_vars

\* SELECT * FROM t; has succeeded with an empty last error on a table whose
\* only row (1) was left by INSERT INTO t VALUES (1), ('x'), a call that
\* failed with "Row validation failed".
C12_Witness ==
    /\ sql_in = SqlSelectT
    /\ pc = "returned"
    /\ last_error_ = << >>
    /\ ret = <<(<<IntV(1)>>)>>
    /\ getColumnCount(tables_[NameT].schema_) = 1

\* What the caller of execute sees of an outcome, and the Database it leaves.
Seen(outcomes) == {<<o.pc, o.ret, o.err, o.tables>> : o \in outcomes}

\* C13: what execute does with a text depends on the Database only: on this
\* engine, whatever it has executed before, each text has the outcomes it
\* has on a newly constructed engine whose Database holds the same tables.
C13_OutcomeOfDatabaseAndText ==
    pc # "crashed"
        => \A sql \in SqlTexts :
              Seen(executeOutcomes(sql, tables_, results_, jit_, module_))
                  = Seen(executeOutcomes(sql, tables_, << >>, jit_, "valid"))

\* C14: on a table t of columns (c, d) and an engine without a JIT,
\* INSERT INTO t (d, c) VALUES ('a', 1) succeeds and stores, as the last
\* row, 1 in column c and 'a' in column d.
C14_ColumnListPositions ==
    (/\ sql_in = SqlInsertDC
     /\ ~jit_
     /\ hasTable(tables_, NameT)
     /\ getColumnCount(tables_[NameT].schema_) = 2
     /\ getColumn(tables_[NameT].schema_, 0).name = NameC
     /\ getColumn(tables_[NameT].schema_, 1).name = NameD)
        => /\ pc = "returned"
           /\ last_error_ = << >>
           /\ tables_[NameT].rows_ # << >>
           /\ tables_[NameT].rows_[Len(tables_[NameT].rows_)]
                 = <<IntV(1), TextV(<<"a">>)>>

C16_SelectProjects ==
    (~jit_ /\ hasTable(tables_, NameT))
        => LET table == tables_[NameT]
               c == table.schema_.column_index_[NameC]
           IN  /\ sql_in = SqlSelectT
                     => (pc = "returned" /\ last_error_ = << >>
                         /\ ret = table.rows_)
               /\ sql_in = SqlSelectCC
                     => (pc = "returned" /\ last_error_ = << >>
                         /\ ret = [k \in 1 .. Len(table.rows_) |->
                                      <<table.rows_[k][c + 1],
                                        table.rows_[k][c + 1]>>])

\* The SELECT * FROM t WHERE ... texts with the truth value of their WHERE
\* expression: true, false, and 1 < 2 AND NOT true, which is false.
WhereTexts ==
    {<<SqlSelectTrueSp, TRUE>>, <<SqlSelectFalse, FALSE>>,
     <<SqlSelectWhereExpr, FALSE>>}

\* C17: on an engine without a JIT and an existing table t, a SELECT * whose
\* WHERE expression is built from boolean literals, NOT, AND, OR and
\* comparisons of literals returns every stored row when the expression is
\* true and no row when it is false, without an error.
C17_WhereBooleanSemantics ==
    \A q \in WhereTexts :
        (sql_in = q[1] /\ ~jit_ /\ hasTable(tables_, NameT))
            => /\ pc = "returned"
               /\ last_error_ = << >>
               /\ ret = IF q[2] THEN tables_[NameT].rows_ ELSE << >>

\* C18: on a table t that holds a row, SELECT * FROM t WHERE 1, whose
\* WHERE expression is an integer, fails: it returns no rows and sets a
\* last error.
C18_NonBooleanWhereFails ==
    (/\ sql_in = SqlSelectWhere1
     /\ pc = "returned"
     /\ hasTable(tables_, NameT)
     /\ tables_[NameT].rows_ # << >>)
        => (ret = << >> /\ last_error_ # << >>)

\* C19: when the input holds the character @ outside a string literal and a
\* comment (here: in an input without a quote and without a minus sign), the
\* sequence tokenize returns holds an INVALID token whose value is @.
C19_InvalidTokenKept ==
    (/\ lex_pc = "done"
     /\ "@" \in Range(lex_input)
     /\ "'" \notin Range(lex_input)
     /\ "-" \notin Range(lex_input))
        => \E i \in DOMAIN lex_tokens :
              /\ lex_tokens[i].type = "INVALID"
              /\ lex_tokens[i].value = <<"@">>

\* The CREATE TABLE, INSERT and DROP TABLE texts.
NoRowTexts ==
    {SqlCreateUsers, SqlCreateT, SqlCreateT2, SqlCreateDup,
     SqlInsertAlice, SqlInsert312, SqlInsertBadType, SqlInsertNonLiteral,
     SqlInsertNullA, SqlInsert1Null, SqlInsertDC, SqlInsertMinus, SqlDropT}

\* C20: a CREATE TABLE, INSERT or DROP TABLE that returns with an empty
\* last error returns no rows, whatever the call before it returned.
C20_NoRowsFromEarlierCall ==
    [][(sql_in' \in NoRowTexts /\ pc' = "returned" /\ last_error_' = << >>)
          => ret' = << >>]_vars

\* INSERT INTO t VALUES (3), (1), (2) has succeeded and returned no rows on
\* an engine that has executed other statements before: its Database also
\* holds the table users.
C20_Witness ==
    /\ sql_in = SqlInsert312
    /\ pc = "returned"
    /\ last_error_ = << >>
    /\ ret = << >>
    /\ hasTable(tables_, NameT)
    /\ Len(tables_[NameT].rows_) = 3
    /\ hasTable(tables_, NameUsers)

\* The INSERT texts that can succeed, with the table each names and the rows
\* of its value lists in their order.
InsertTexts ==
    {<<SqlInsertAlice, NameUsers, <<AliceRow>>>>,
     <<SqlInsert312, NameT, <<(<<IntV(3)>>), (<<IntV(1)>>), (<<IntV(2)>>)>>>>,
     <<SqlInsertNullA, NameT, <<(<<NullV, TextV(<<"a">>)>>)>>>>,
     <<SqlInsert1Null, NameT, <<(<<IntV(1), NullV>>)>>>>}

\* C21: a successful INSERT leaves the rows the table held before as they
\* were, in their order, and puts the rows of its value lists after them in
\* the order of the lists; a successful SELECT * FROM t; returns the rows of
\* t in that order.
C21_InsertAppends ==
    [][/\ \A q \in InsertTexts :
             (sql_in' = q[1] /\ pc' = "returned" /\ last_error_' = << >>)
                 => /\ hasTable(tables_, q[2])
                    /\ hasTable(tables_', q[2])
                    /\ tables_'[q[2]].rows_ = tables_[q[2]].rows_ \o q[3]
       /\ (sql_in' = SqlSelectT /\ pc' = "returned" /\ last_error_' = << >>)
             => (hasTable(tables_, NameT) /\ ret' = tables_[NameT].rows_)]_vars

\* INSERT INTO t VALUES (1, NULL) has succeeded on a table that held the
\* row (NULL, 'a'): the new row is the second.
C21_Witness ==
    /\ sql_in = SqlInsert1Null
    /\ pc = "returned"
    /\ last_error_ = << >>
    /\ hasTable(tables_, NameT)
    /\ tables_[NameT].rows_ = <<(<<NullV, TextV(<<"a">>)>>), (<<IntV(1), NullV>>)>>

\* The place of each variant in the fixed tag order.
TagRank(v) ==
    CASE v.type = "INTEGER" -> 1
      [] v.type = "REAL" -> 2
      [] v.type = "TEXT" -> 3
      [] v.type = "BOOLEAN" -> 4
      [] v.type = "NULL_TYPE" -> 5

\* C22: on integer, text, boolean and null values the comparison operators
\* of Value form a total order: exactly one of a < b, a == b, b < a holds,
\* a == b holds exactly for identical values, < is transitive, values of
\* different variants are ordered by the tag order, a <= b iff a < b or
\* a == b, a > b iff b < a, and a >= b iff not a < b.
C22_ValueTotalOrder ==
    cmp_out # << >>
        => /\ (cmp_out.lt_ab /\ ~cmp_out.eq_ab /\ ~cmp_out.lt_ba)
                 \/ (~cmp_out.lt_ab /\ cmp_out.eq_ab /\ ~cmp_out.lt_ba)
                 \/ (~cmp_out.lt_ab /\ ~cmp_out.eq_ab /\ cmp_out.lt_ba)
           /\ cmp_out.eq_ab <=> cmp_in[1] = cmp_in[2]
           /\ (cmp_out.lt_ab /\ cmp_out.lt_bc) => cmp_out.lt_ac
           /\ TagRank(cmp_in[1]) # TagRank(cmp_in[2])
                 => (cmp_out.lt_ab <=> TagRank(cmp_in[1]) < TagRank(cmp_in[2]))
           /\ cmp_out.le_ab <=> (cmp_out.lt_ab \/ cmp_out.eq_ab)
           /\ cmp_out.gt_ab <=> cmp_out.lt_ba
           /\ cmp_out.ge_ab <=> ~cmp_out.lt_ab

\* The operators have been applied to an integer, a text and a null, which
\* the tag order puts in that order.
C22_Witness ==
    /\ cmp_out # << >>
    /\ cmp_in[1].type = "INTEGER"
    /\ cmp_in[2].type = "TEXT"
    /\ cmp_in[3].type = "NULL_TYPE"
    /\ cmp_out.lt_ab /\ cmp_out.lt_bc /\ cmp_out.lt_ac

ColumnA == ColumnExpression(<< >>, <<"a">>)
ColumnB == ColumnExpression(<< >>, <<"b">>)

\* C23: parseExpression groups by the levels OR < AND < equality <
\* comparison < additive < multiplicative < unary.  a o1 b o2 c is
\* a o1 (b o2 c) when o2 is of a higher level than o1 and (a o1 b) o2 c
\* otherwise, so operators of one level group left to right; u1 u2 a is
\* u1 (u2 a); and u a o b is (u a) o b.  The whole text is parsed.
C23_PrecedenceAndAssociativity ==
    expr_out # << >>
        => /\ \A o1, o2 \in BinaryOps :
                 expr_in = BinaryText(o1, o2)
                     => /\ expr_out.st = "ok"
                        /\ expr_out.expr =
                              IF o2.level > o1.level
                              THEN BinaryExpression(ColumnA, o1.op,
                                       BinaryExpression(ColumnB, o2.op,
                                           ColumnExpression(<< >>, <<"c">>)))
                              ELSE BinaryExpression(
                                       BinaryExpression(ColumnA, o1.op, ColumnB),
                                       o2.op, ColumnExpression(<< >>, <<"c">>))
           /\ \A u1, u2 \in UnaryOps :
                 expr_in = UnaryText(u1, u2)
                     => /\ expr_out.st = "ok"
                        /\ expr_out.expr =
                              UnaryExpression(u1.op, UnaryExpression(u2.op, ColumnA))
           /\ \A u \in UnaryOps, o \in BinaryOps :
                 expr_in = MixedText(u, o)
                     => /\ expr_out.st = "ok"
                        /\ expr_out.expr =
                              BinaryExpression(UnaryExpression(u.op, ColumnA),
                                               o.op, ColumnB)
           /\ expr_in \in ExprTexts
                 => expr_out.tokens[expr_out.current_ + 1].type = "EOF_TOKEN"

\* a OR b AND c has been parsed as a OR (b AND c).
C23_Witness ==
    /\ expr_in = <<"a", " ", "O", "R", " ", "b", " ", "A", "N", "D", " ", "c", " ">>
    /\ expr_out # << >>
    /\ expr_out.expr =
          BinaryExpression(ColumnA, "OR",
              BinaryExpression(ColumnB, "AND", ColumnExpression(<< >>, <<"c">>)))

\* C24: CREATE TABLE t (c INTEGER not null primary key), with the
\* constraints in lower case, parses: on an engine without a JIT it either
\* fails because t exists or creates t with the one column c, INTEGER, not
\* nullable, primary key.
C24_ConstraintsInAnyCase ==
    (sql_in = SqlCreateLower /\ ~jit_)
        => /\ pc = "returned"
           /\ \/ last_error_ = <<"Table already exists: ", NameT>>
              \/ /\ last_error_ = << >>
                 /\ hasTable(tables_, NameT)
                 /\ tables_[NameT].schema_.columns_
                       = <<Column(NameC, "INTEGER", FALSE, TRUE)>>

C26_TokenizeTerminates ==
    /\ [][(lex_pc = "loop" /\ hasNext(lex_input, position_))
            => \/ position_ < position_' /\ position_' <= Len(lex_input)
               \/ lex_pc' = "done" /\ lex_tokens' # << >>
                  /\ lex_tokens'[Len(lex_tokens')].type = "EOF_TOKEN"]_vars
    /\ <>(lex_pc = "done")

\* tokenize() has returned after scanning a whole three-character input in
\* more than one iteration.
C26_Witness ==
    /\ lex_pc = "done"
    /\ Len(lex_input) = MaxLen
    /\ position_ = Len(lex_input)
    /\ Len(lex_tokens) >= 2

\* The CREATE TABLE t texts, each with the columns it declares.
CreateTSchemas ==
    {<<SqlCreateT, <<Column(NameC, "INTEGER", TRUE, FALSE)>>>>,
     <<SqlCreateT2, <<Column(NameC, "INTEGER", FALSE, FALSE),
                      Column(NameD, "TEXT", TRUE, FALSE)>>>>,
     <<SqlCreateDup, <<Column(NameC, "INTEGER", TRUE, FALSE),
                       Column(NameC, "TEXT", TRUE, FALSE)>>>>}

RECURSIVE digitRun(_, _)
digitRun(input, pos) ==
    IF hasNext(input, pos) /\ isDigit(Lexer_peek(input, pos))
    THEN <<Lexer_peek(input, pos)>> \o digitRun(input, pos + 1)
    ELSE << >>

\* The numeric literal that starts after pos characters: the longest run of
\* digits and, if a '.' and at least one digit follow it, the '.' and the
\* longest run of digits after it.
numberText(input, pos) ==
    Let(digitRun(input, pos), LAMBDA whole :
    Let(pos + Len(whole), LAMBDA dot :
    IF hasNext(input, dot) /\ Lexer_peek(input, dot) = "."
       /\ digitRun(input, dot + 1) # << >>
    THEN whole \o <<".">> \o digitRun(input, dot + 1)
    ELSE whole))

\* C28: an iteration of tokenize that starts on a digit appends one token,
\* made by readNumber: its text is the longest run of digits, with one '.' and
\* the digits after it if there are any; it is a REAL_LITERAL if its text
\* holds a '.' and an INTEGER_LITERAL otherwise; the scan goes on right
\* after the text.
C28_ReadNumberText ==
    [][(lex_pc = "loop" /\ hasNext(lex_input, position_)
        /\ isDigit(Lexer_peek(lex_input, position_)))
          => Let(numberText(lex_input, position_), LAMBDA text :
             /\ position_' = position_ + Len(text)
             /\ Len(lex_tokens') = Len(lex_tokens) + 1
             /\ lex_tokens'[Len(lex_tokens')].value = text
             /\ lex_tokens'[Len(lex_tokens')].type =
                   IF "." \in Range(text) THEN "REAL_LITERAL" ELSE "INTEGER_LITERAL")]_vars

\* C29: in a call of execute whose text gave at least one token, the parser
\* made no read outside tokens_: no peek at current_ >= tokens_.size(), no
\* previous at current_ = 0.
C29_ParserReadsInsideTokens ==
    (pc # "idle" /\ ~ParseCache[sql_in].empty)
        => \A r \in ParseCache[sql_in].parsed : ~r.oob

\* The texts that name a table to change, each with that table.
ChangeTexts ==
    {<<SqlCreateUsers, NameUsers>>, <<SqlInsertAlice, NameUsers>>,
     <<SqlCreateT, NameT>>, <<SqlCreateT2, NameT>>, <<SqlCreateDup, NameT>>,
     <<SqlCreateLower, NameT>>, <<SqlInsert312, NameT>>,
     <<SqlInsertBadType, NameT>>, <<SqlInsertNonLiteral, NameT>>,
     <<SqlInsertNullA, NameT>>, <<SqlInsert1Null, NameT>>,
     <<SqlInsertDC, NameT>>, <<SqlInsertMinus, NameT>>, <<SqlDropT, NameT>>}

\* The SELECT texts.
SelectTexts ==
    {SqlSelectUsers, SqlSelectT, SqlSelectTrue, SqlSelectTrueSp, SqlSelectFalse,
     SqlSelectOrderLimit, SqlSelectOrderDescLimit, SqlSelectCC,
     SqlSelectWhereExpr, SqlSelectWhere1}

\* C30: a call of execute with an INSERT INTO, CREATE TABLE or DROP TABLE
\* text leaves every table other than the one the text names as it was, with
\* its schema and rows, and makes or removes no other table; a call with a
\* SELECT text, whether it succeeds or fails, and a call that fails in the
\* lexer or the parser leave the whole Database as it was.
C30_OnlyNamedTableChanges ==
    [][/\ \A q \in ChangeTexts :
             sql_in' = q[1]
                 => /\ DOMAIN tables_' \ {q[2]} = DOMAIN tables_ \ {q[2]}
                    /\ \A n \in DOMAIN tables_ \ {q[2]} : tables_'[n] = tables_[n]
       /\ sql_in' \in SelectTexts => tables_' = tables_
       /\ (/\ last_error_' # << >>
           /\ last_error_'[1] \in {"Parse error at token ", "No tokens found in SQL"})
              => tables_' = tables_]_vars

\* DROP TABLE t has succeeded on a Database that also holds the table users
\* with its row: t is gone, users is as it was.
C30_Witness ==
    /\ sql_in = SqlDropT
    /\ pc = "returned"
    /\ last_error_ = << >>
    /\ ~hasTable(tables_, NameT)
    /\ hasTable(tables_, NameUsers)
    /\ tables_[NameUsers].rows_ = <<AliceRow>>

=============================================================================
